---- MODULE Spec2Model ----
(***************************************************************************)
(* The waSCC Redis key-value capability provider (src/src/lib.rs):         *)
(* RedisKVProvider.handle_call dispatches (actor, op, msg) to one handler; *)
(* every handler resolves the actor's redis::Client in the RwLock-guarded  *)
(* `clients` map, opens a connection and issues Redis commands.            *)
(*                                                                         *)
(* Strings that are parsed or formatted (values) are sequences of          *)
(* one-character strings; keys, actor names and opcodes are never          *)
(* converted and stay TLA+ strings.                                        *)
(***************************************************************************)
EXTENDS Integers, Sequences, FiniteSets, TLC

VARIABLES
  clients,     \* RedisKVProvider.clients: actor name -> redis::Client
  readers,     \* threads that hold the read lock of `clients`
  writer,      \* the thread that holds its write lock, or 0
  pc,          \* where each thread is in handle_call
  actor, op,   \* the arguments of the thread's handle_call
  req,         \* its decoded request
  newClient,   \* configure: the client initialize_client made
  con,         \* a handler: the client it asked for a connection
  ncmd,        \* commands the thread has sent in this call
  result,      \* what handle_call returned
  store,       \* the databases of the Redis servers, by URL
  netOk,       \* whether the servers can be reached
  nflips,      \* changes of netOk so far
  nconf, nops, \* dispatches made so far
  suite,       \* the workload the host runs in this behaviour
  registered,  \* history: every client a configuration made for a name
  trail        \* history: the run of like writes last made to a key

vars == <<clients, readers, writer, pc, actor, op, req, newClient, con, ncmd,
          result, store, netOk, nflips, nconf, nops, suite, registered, trail>>

locks == <<readers, writer>>
\* a call's arguments and locals
call == <<actor, op, req, newClient, con, ncmd>>
servers == <<store, netOk, nflips>>
budget == <<nconf, nops, suite>>

(***************************************************************************)
(* Bounds of the model.                                                    *)
(***************************************************************************)
\* configuration dispatches the host makes in one behaviour
MaxConfigs == 2
\* other dispatches the host makes in one behaviour
MaxOps == 3
\* times the network to the servers fails or recovers in one behaviour
MaxFlips == 1

\* host threads that call handle_call concurrently
Threads == {1, 2}
\* Redis servers a configuration can name
Urls == {"u1", "u2"}
\* a connection parameter initialize_client rejects
BadUrl == "bad"
\* keys of the databases
Keys == {"", "k"}

(***************************************************************************)
(* Decimal strings, as the Redis server reads and writes them for INCRBY.  *)
(***************************************************************************)
Digits == <<"0", "1", "2", "3", "4", "5", "6", "7", "8", "9">>

IsDigit(c) == \E i \in 1..10 : Digits[i] = c

DigitVal(c) == (CHOOSE i \in 1..10 : Digits[i] = c) - 1

\* value of a sequence of digits, most significant first
RECURSIVE DigitsVal(_)
DigitsVal(s) ==
  IF s = <<>> THEN 0
  ELSE 10 * DigitsVal(SubSeq(s, 1, Len(s) - 1)) + DigitVal(s[Len(s)])

\* the digits of n >= 0, most significant first, no leading zero
RECURSIVE NatDigits(_)
NatDigits(n) ==
  IF n < 10 THEN <<Digits[n + 1]>>
  ELSE Append(NatDigits(n \div 10), Digits[(n % 10) + 1])

\* how the server writes an integer into a string value
FormatInt(n) == IF n < 0 THEN <<"-">> \o NatDigits(0 - n) ELSE NatDigits(n)

\* a string the server accepts as an integer: "0", or an optional "-"
\* followed by a digit 1-9 and digits; no sign "+", no space, no leading zero
IsIntString(s) ==
  LET body == IF s # <<>> /\ s[1] = "-" THEN Tail(s) ELSE s
  IN  \/ s = <<"0">>
      \/ /\ body # <<>>
         /\ IsDigit(body[1]) /\ body[1] # "0"
         /\ \A i \in 1..Len(body) : IsDigit(body[i])

ParseInt(s) ==
  IF s # <<>> /\ s[1] = "-" THEN 0 - DigitsVal(Tail(s)) ELSE DigitsVal(s)

(***************************************************************************)
(* The Redis server behind one URL: a map from key to a typed value, and   *)
(* the commands the handlers send (redis::Commands).  A command maps the   *)
(* database to [db, reply].                                                *)
(***************************************************************************)
NoVal == [t |-> "none", s |-> <<>>, l |-> <<>>, m |-> {}]
StrVal(s) == [t |-> "string", s |-> s, l |-> <<>>, m |-> {}]
ListVal(l) == IF l = <<>> THEN NoVal ELSE [t |-> "list", s |-> <<>>, l |-> l, m |-> {}]
SetVal(m) == IF m = {} THEN NoVal ELSE [t |-> "set", s |-> <<>>, l |-> <<>>, m |-> m]

EmptyDb == [k \in Keys |-> NoVal]

\* replies of the server (redis::Value) and the errors of a query
Reply(kind) == [k |-> kind, n |-> 0, s |-> <<>>, l |-> <<>>, m |-> {}, e |-> ""]
IntReply(n) == [Reply("int") EXCEPT !.n = n]
DataReply(s) == [Reply("data") EXCEPT !.s = s]
BulkReply(l) == [Reply("bulk") EXCEPT !.l = l]
MembersReply(m) == [Reply("members") EXCEPT !.m = m]
NilReply == Reply("nil")
OkayReply == Reply("okay")
ErrReply(e) == [Reply("err") EXCEPT !.e = e]
WrongType == ErrReply("WRONGTYPE")
IoError == ErrReply("io")

Out(db, reply) == [db |-> db, reply |-> reply]

\* EXISTS key
CmdExists(db, key) == Out(db, IntReply(IF db[key].t = "none" THEN 0 ELSE 1))

\* GET key
CmdGet(db, key) ==
  CASE db[key].t = "none" -> Out(db, NilReply)
    [] db[key].t = "string" -> Out(db, DataReply(db[key].s))
    [] OTHER -> Out(db, WrongType)

\* SET key value: replaces a value of any type
CmdSet(db, key, value) == Out([db EXCEPT ![key] = StrVal(value)], OkayReply)

\* INCRBY key delta: an absent key counts as 0
CmdIncrBy(db, key, delta) ==
  CASE db[key].t \notin {"none", "string"} -> Out(db, WrongType)
    [] db[key].t = "string" /\ ~IsIntString(db[key].s) -> Out(db, ErrReply("not an integer"))
    [] OTHER ->
         LET old == IF db[key].t = "none" THEN 0 ELSE ParseInt(db[key].s)
             new == old + delta
         IN  Out([db EXCEPT ![key] = StrVal(FormatInt(new))], IntReply(new))

\* DEL key: the number of keys removed
CmdDel(db, key) ==
  Out([db EXCEPT ![key] = NoVal], IntReply(IF db[key].t = "none" THEN 0 ELSE 1))

\* LPUSH key value: the length of the list after the push
CmdLPush(db, key, value) ==
  IF db[key].t \notin {"none", "list"} THEN Out(db, WrongType)
  ELSE LET l == <<value>> \o db[key].l
       IN  Out([db EXCEPT ![key] = ListVal(l)], IntReply(Len(l)))

\* LRANGE key start stop: both ends inclusive, negative indexes from the end
CmdLRange(db, key, start, stop) ==
  IF db[key].t \notin {"none", "list"} THEN Out(db, WrongType)
  ELSE LET l == db[key].l
           n == Len(l)
           s0 == IF start < 0 THEN n + start ELSE start
           e0 == IF stop < 0 THEN n + stop ELSE stop
           s1 == IF s0 < 0 THEN 0 ELSE s0
           e1 == IF e0 >= n THEN n - 1 ELSE e0
       IN  Out(db, BulkReply(IF s1 > e1 \/ s1 >= n THEN <<>> ELSE SubSeq(l, s1 + 1, e1 + 1)))

RECURSIVE Without(_, _)
Without(l, value) ==
  IF l = <<>> THEN <<>>
  ELSE IF Head(l) = value THEN Without(Tail(l), value)
  ELSE <<Head(l)>> \o Without(Tail(l), value)

\* LREM key 0 value: removes every occurrence, replies the number removed
CmdLRem(db, key, value) ==
  IF db[key].t \notin {"none", "list"} THEN Out(db, WrongType)
  ELSE LET l == Without(db[key].l, value)
       IN  Out([db EXCEPT ![key] = ListVal(l)], IntReply(Len(db[key].l) - Len(l)))

\* SADD key member: the number of members added
CmdSAdd(db, key, member) ==
  IF db[key].t \notin {"none", "set"} THEN Out(db, WrongType)
  ELSE Out([db EXCEPT ![key] = SetVal(db[key].m \cup {member})],
           IntReply(IF member \in db[key].m THEN 0 ELSE 1))

\* SREM key member: the number of members removed
CmdSRem(db, key, member) ==
  IF db[key].t \notin {"none", "set"} THEN Out(db, WrongType)
  ELSE Out([db EXCEPT ![key] = SetVal(db[key].m \ {member})],
           IntReply(IF member \in db[key].m THEN 1 ELSE 0))

\* SMEMBERS key
CmdSMembers(db, key) ==
  IF db[key].t \notin {"none", "set"} THEN Out(db, WrongType)
  ELSE Out(db, MembersReply(db[key].m))

\* SUNION key...: absent keys are empty sets
CmdSUnion(db, keys) ==
  CASE keys = <<>> -> Out(db, ErrReply("wrong number of arguments"))
    [] \E i \in 1..Len(keys) : db[keys[i]].t \notin {"none", "set"} -> Out(db, WrongType)
    [] OTHER -> Out(db, MembersReply(UNION {db[keys[i]].m : i \in 1..Len(keys)}))

\* SINTER key...: the keys are read in order, an absent one ends the command
CmdSInter(db, keys) ==
  LET bad(i) == db[keys[i]].t \notin {"none", "set"}
      gone(i) == db[keys[i]].t = "none"
  IN  CASE keys = <<>> -> Out(db, ErrReply("wrong number of arguments"))
        [] \E i \in 1..Len(keys) : bad(i) /\ \A j \in 1..(i - 1) : ~gone(j) -> Out(db, WrongType)
        [] OTHER -> Out(db, MembersReply({x \in db[keys[1]].m :
                                            \A i \in 1..Len(keys) : x \in db[keys[i]].m}))

(***************************************************************************)
(* redis::FromRedisValue: the reply converted to the type the handler      *)
(* asks for.  [ok, n / s / l / b].                                         *)
(***************************************************************************)
Conv(ok) == [ok |-> ok, n |-> 0, s |-> <<>>, l |-> <<>>, b |-> FALSE, e |-> ""]
ConvErr(e) == [Conv(FALSE) EXCEPT !.e = e]

\* `val as i32` of the reply's 64-bit integer: every integer the bounded
\* behaviours reach lies within i32, where the cast keeps the value
AsI32(n) == n

ToI32(r) ==
  CASE r.k = "err" -> ConvErr(r.e)
    [] r.k = "int" -> [Conv(TRUE) EXCEPT !.n = AsI32(r.n)]
    [] r.k = "data" /\ IsIntString(r.s) -> [Conv(TRUE) EXCEPT !.n = ParseInt(r.s)]
    [] OTHER -> ConvErr("type")

ToStr(r) ==
  CASE r.k = "err" -> ConvErr(r.e)
    [] r.k = "data" -> [Conv(TRUE) EXCEPT !.s = r.s]
    [] r.k = "okay" -> [Conv(TRUE) EXCEPT !.s = <<"O", "K">>]
    [] OTHER -> ConvErr("type")

ToBool(r) ==
  CASE r.k = "err" -> ConvErr(r.e)
    [] r.k = "nil" -> [Conv(TRUE) EXCEPT !.b = FALSE]
    [] r.k = "int" -> [Conv(TRUE) EXCEPT !.b = (r.n # 0)]
    [] r.k = "okay" -> [Conv(TRUE) EXCEPT !.b = TRUE]
    [] OTHER -> ConvErr("type")

ToUnit(r) == IF r.k = "err" THEN ConvErr(r.e) ELSE Conv(TRUE)

\* the orders in which the server may list the members of a set
Orderings(m) ==
  {l \in [1..Cardinality(m) -> m] : \A i, j \in 1..Cardinality(m) : l[i] = l[j] => i = j}

\* Vec<String>: the conversions the reply allows (one per order of a set)
ToVecs(r) ==
  CASE r.k = "err" -> {ConvErr(r.e)}
    [] r.k = "nil" -> {Conv(TRUE)}
    [] r.k = "bulk" -> {[Conv(TRUE) EXCEPT !.l = r.l]}
    [] r.k = "members" -> {[Conv(TRUE) EXCEPT !.l = l] : l \in Orderings(r.m)}
    [] OTHER -> {ConvErr("type")}

(***************************************************************************)
(* The message codec (prost): a payload is the list of the fields it       *)
(* carries, or is cut short.  A field has a number, a wire type and a      *)
(* value: `a` for a name (key, module, connection parameter), `b` for a    *)
(* string value, `n` for an integer.  Encoding leaves out a field that     *)
(* holds its default; decoding fills the default in, skips a field the     *)
(* message type does not have, keeps the last of a repeated scalar, and    *)
(* fails on a cut payload or on a field of the wrong wire type.            *)
(***************************************************************************)
Entry(num, wt) == [num |-> num, wt |-> wt, a |-> "", b |-> <<>>, n |-> 0]
NameField(num, a) == [Entry(num, "len") EXCEPT !.a = a]
StrField(num, b) == [Entry(num, "len") EXCEPT !.b = b]
IntField(num, n) == [Entry(num, "varint") EXCEPT !.n = n]

Payload(f) == [trunc |-> FALSE, f |-> f]
EmptyPayload == Payload(<<>>)
\* bytes that end in the middle of a field
CutPayload == [trunc |-> TRUE, f |-> <<>>]
\* field 1 sent as a varint where every request has a length-delimited one
WrongWirePayload == Payload(<<IntField(1, 1)>>)

\* the fields of a message type: number -> wire type
Schema(wts) == [i \in 1..Len(wts) |-> wts[i]]

Decodes(msg, schema) ==
  /\ ~msg.trunc
  /\ \A i \in 1..Len(msg.f) :
       msg.f[i].num \in DOMAIN schema => msg.f[i].wt = schema[msg.f[i].num]

\* the entries of field num, in order
RECURSIVE FieldsOf(_, _)
FieldsOf(f, num) ==
  IF f = <<>> THEN <<>>
  ELSE IF Head(f).num = num THEN <<Head(f)>> \o FieldsOf(Tail(f), num)
  ELSE FieldsOf(Tail(f), num)

\* the last entry of field num, or the default
Field(msg, num) ==
  LET es == FieldsOf(msg.f, num)
  IN  IF es = <<>> THEN Entry(num, "") ELSE es[Len(es)]

\* a decoded request; a field the request type lacks keeps its default
NoReq == [key |-> "", value |-> <<>>, ivalue |-> 0, start |-> 0, stop |-> 0,
          keys |-> <<>>, expires_s |-> 0, module |-> "", url |-> ""]

Decoded(r) == [ok |-> TRUE, req |-> r]
DecodeError == [ok |-> FALSE, req |-> NoReq]

\* {key}: GetRequest, DelRequest, ListClearRequest, SetQueryRequest, KeyExistsQuery
DecodeKey(msg) ==
  IF ~Decodes(msg, Schema(<<"len">>)) THEN DecodeError
  ELSE Decoded([NoReq EXCEPT !.key = Field(msg, 1).a])

\* {key, value: i32}: AddRequest
DecodeAdd(msg) ==
  IF ~Decodes(msg, Schema(<<"len", "varint">>)) THEN DecodeError
  ELSE Decoded([NoReq EXCEPT !.key = Field(msg, 1).a, !.ivalue = Field(msg, 2).n])

\* {key, value}: ListPushRequest, ListDelItemRequest, SetAddRequest, SetRemoveRequest
DecodeKeyValue(msg) ==
  IF ~Decodes(msg, Schema(<<"len", "len">>)) THEN DecodeError
  ELSE Decoded([NoReq EXCEPT !.key = Field(msg, 1).a, !.value = Field(msg, 2).b])

\* {key, value, expires_s}: SetRequest
DecodeSet(msg) ==
  IF ~Decodes(msg, Schema(<<"len", "len", "varint">>)) THEN DecodeError
  ELSE Decoded([NoReq EXCEPT !.key = Field(msg, 1).a, !.value = Field(msg, 2).b,
                             !.expires_s = Field(msg, 3).n])

\* {key, start, stop}: ListRangeRequest
DecodeRange(msg) ==
  IF ~Decodes(msg, Schema(<<"len", "varint", "varint">>)) THEN DecodeError
  ELSE Decoded([NoReq EXCEPT !.key = Field(msg, 1).a, !.start = Field(msg, 2).n,
                             !.stop = Field(msg, 3).n])

\* {keys: repeated}: SetUnionRequest, SetIntersectionRequest
DecodeKeys(msg) ==
  IF ~Decodes(msg, Schema(<<"len">>)) THEN DecodeError
  ELSE LET es == FieldsOf(msg.f, 1)
       IN  Decoded([NoReq EXCEPT !.keys = [i \in 1..Len(es) |-> es[i].a]])

\* {module, values}: CapabilityConfiguration; of `values` the model keeps the
\* connection parameter the client factory reads
DecodeConfig(msg) ==
  IF ~Decodes(msg, Schema(<<"len", "len">>)) THEN DecodeError
  ELSE Decoded([NoReq EXCEPT !.module = Field(msg, 1).a, !.url = Field(msg, 2).a])

\* encodings of the requests the host sends
Opt(cond, e) == IF cond THEN <<e>> ELSE <<>>
EncKey(key) == Payload(Opt(key # "", NameField(1, key)))
EncAdd(key, n) == Payload(Opt(key # "", NameField(1, key)) \o Opt(n # 0, IntField(2, n)))
EncKeyValue(key, v) == Payload(Opt(key # "", NameField(1, key)) \o Opt(v # <<>>, StrField(2, v)))
EncRange(key, a, z) ==
  Payload(Opt(key # "", NameField(1, key)) \o Opt(a # 0, IntField(2, a)) \o Opt(z # 0, IntField(3, z)))
EncKeys(keys) == Payload([i \in 1..Len(keys) |-> NameField(1, keys[i])])
EncConfig(module, url) ==
  Payload(Opt(module # "", NameField(1, module)) \o Opt(url # "", NameField(2, url)))

(***************************************************************************)
(* Responses and bytes(): the payload handle_call returns.                 *)
(***************************************************************************)
\* AddResponse {value: i32}
BytesAdd(value) == Payload(Opt(value # 0, IntField(1, value)))
\* DelResponse {key}
BytesDel(key) == Payload(Opt(key # "", NameField(1, key)))
\* GetResponse {value, exists}
BytesGet(value, exists) ==
  Payload(Opt(value # <<>>, StrField(1, value)) \o Opt(exists, IntField(2, 1)))
\* SetResponse {value}
BytesSet(value) == Payload(Opt(value # <<>>, StrField(1, value)))
\* ListResponse, SetOperationResponse {new_count: i32}
BytesCount(new_count) == Payload(Opt(new_count # 0, IntField(1, new_count)))
\* ListRangeResponse, SetQueryResponse {values: repeated}
BytesValues(values) == Payload([i \in 1..Len(values) |-> StrField(1, values[i])])

\* the responses as the host decodes them
AsGetResponse(msg) == [value |-> Field(msg, 1).b, exists |-> Field(msg, 2).n # 0]
AsAddResponse(msg) == [value |-> Field(msg, 1).n]
AsSetResponse(msg) == [value |-> Field(msg, 1).b]
AsDelResponse(msg) == [key |-> Field(msg, 1).a]
AsCountResponse(msg) == [new_count |-> Field(msg, 1).n]
AsValuesResponse(msg) ==
  LET es == FieldsOf(msg.f, 1) IN [values |-> [i \in 1..Len(es) |-> es[i].b]]

\* Result<Vec<u8>, Box<dyn Error>>, or the panic of an unwrap()
NoResult == [kind |-> "none", bytes |-> EmptyPayload, err |-> ""]
Ok(bytes) == [kind |-> "ok", bytes |-> bytes, err |-> ""]
Err(e) == [kind |-> "err", bytes |-> EmptyPayload, err |-> e]
Panic(e) == [kind |-> "panic", bytes |-> EmptyPayload, err |-> e]

(***************************************************************************)
(* Operation codes.                                                        *)
(***************************************************************************)
OP_CONFIGURE == "Configure"
OP_ADD == "Add"
OP_DEL == "Del"
OP_GET == "Get"
OP_CLEAR == "Clear"
OP_RANGE == "Range"
OP_PUSH == "Push"
OP_SET == "Set"
OP_LIST_DEL == "ListItemDelete"
OP_SET_ADD == "SetAdd"
OP_SET_REMOVE == "SetRemove"
OP_SET_UNION == "SetUnion"
OP_SET_INTERSECT == "SetIntersection"
OP_SET_QUERY == "SetQuery"
OP_KEY_EXISTS == "KeyExists"

\* the operations handle_call matches besides the configuration
Catalog == {OP_ADD, OP_DEL, OP_GET, OP_CLEAR, OP_RANGE, OP_PUSH, OP_SET, OP_LIST_DEL,
            OP_SET_ADD, OP_SET_REMOVE, OP_SET_UNION, OP_SET_INTERSECT, OP_SET_QUERY,
            OP_KEY_EXISTS}

\* the decode of the arm of handle_call that matches o
DecodeFor(o, msg) ==
  CASE o = OP_CONFIGURE -> DecodeConfig(msg)
    [] o = OP_ADD -> DecodeAdd(msg)
    [] o = OP_SET -> DecodeSet(msg)
    [] o = OP_RANGE -> DecodeRange(msg)
    [] o \in {OP_PUSH, OP_LIST_DEL, OP_SET_ADD, OP_SET_REMOVE} -> DecodeKeyValue(msg)
    [] o \in {OP_SET_UNION, OP_SET_INTERSECT} -> DecodeKeys(msg)
    [] OTHER -> DecodeKey(msg)

(***************************************************************************)
(* The client factory (kvredis::initialize_client) and the clients.  A     *)
(* client is the connection parameter it was made from; `id` tells apart   *)
(* the client objects of different calls.                                  *)
(***************************************************************************)
NoClient == [id |-> 0, url |-> ""]

\* names a client can be inserted under: config.module is any string
Names == {"system", "a1", "a2", ""}

initialize_client(config, id) ==
  IF config.url \in Urls THEN [ok |-> TRUE, c |-> [id |-> id, url |-> config.url]]
  ELSE [ok |-> FALSE, c |-> NoClient]

(***************************************************************************)
(* The handlers, from the point where actor_con has returned a connection. *)
(* db is the database the connection reaches, r the request, up whether    *)
(* the server answers.  Each gives the outcomes of its next command:       *)
(* [db, res, pc, ran]; ran tells that the server executed the command.     *)
(***************************************************************************)
\* one query over the connection
Query(up, out, db) == IF up THEN out ELSE Out(db, IoError)

Outcome(o, res, next) ==
  [db |-> o.db, res |-> res, pc |-> next, ran |-> o.reply.k # "err"]

\* a handler that returns f(converted reply), or the error of `?`
Returns(o, conv, bytes) ==
  Outcome(o, IF conv.ok THEN Ok(bytes) ELSE Err(conv.e), "done")

\* an add that sends INCR: the increment of the request is left out
add_by_one(db, r, up) ==
  LET o == Query(up, CmdIncrBy(db, r.key, 1), db)
      res == ToI32(o.reply)
  IN  {Returns(o, res, BytesAdd(res.n))}

\* an add that answers a failed INCRBY with the default AddResponse
add_or_default(db, r, up) ==
  LET o == Query(up, CmdIncrBy(db, r.key, r.ivalue), db)
      res == ToI32(o.reply)
  IN  {Outcome(o, Ok(BytesAdd(res.n)), "done")}

add(db, r, up) ==
  LET o == Query(up, CmdIncrBy(db, r.key, r.ivalue), db)
      res == ToI32(o.reply)
  IN  {Returns(o, res, BytesAdd(res.n))}

\* a del that reports a key that was not there as an error
del_strict(db, r, up) ==
  LET o == Query(up, CmdDel(db, r.key), db)
      n == ToI32(o.reply)
  IN  {Outcome(o, IF ~n.ok THEN Err(n.e) ELSE IF n.n = 0 THEN Err("not found")
                  ELSE Ok(BytesDel(r.key)), "done")}

del(db, r, up) ==
  LET o == Query(up, CmdDel(db, r.key), db)
  IN  {Returns(o, ToUnit(o.reply), BytesDel(r.key))}

\* a get that reports an absent key as an error
get_exists_absent_fails(db, r, up) ==
  LET o == Query(up, CmdExists(db, r.key), db)
      e == ToBool(o.reply)
  IN  {IF ~e.ok THEN Outcome(o, Err(e.e), "done")
       ELSE IF ~e.b THEN Outcome(o, Err("not found"), "done")
       ELSE Outcome(o, NoResult, "get_read")}

\* get, lines 92-96: the EXISTS command
get_exists(db, r, up) ==
  LET o == Query(up, CmdExists(db, r.key), db)
      e == ToBool(o.reply)
  IN  {IF ~e.ok THEN Outcome(o, Err(e.e), "done")
       ELSE IF ~e.b THEN Outcome(o, Ok(BytesGet(<<>>, FALSE)), "done")
       ELSE Outcome(o, NoResult, "get_read")}

\* a get that returns the error of a GET that failed
get_read_reports(db, r, up) ==
  LET o == Query(up, CmdGet(db, r.key), db)
      v == ToStr(o.reply)
  IN  {Outcome(o, IF v.ok THEN Ok(BytesGet(v.s, TRUE)) ELSE Err(v.e), "done")}

\* get, lines 98-111: the GET command
get_read(db, r, up) ==
  LET o == Query(up, CmdGet(db, r.key), db)
      v == ToStr(o.reply)
  IN  {Outcome(o, Ok(IF v.ok THEN BytesGet(v.s, TRUE) ELSE BytesGet(<<>>, FALSE)), "done")}

list_clear(db, r, up) == del(db, r, up)

list_range(db, r, up) ==
  LET o == Query(up, CmdLRange(db, r.key, r.start, r.stop), db)
  IN  {Returns(o, v, BytesValues(v.l)) : v \in ToVecs(o.reply)}

\* a push that sends RPUSH: the value goes to the end of the list
list_push_back(db, r, up) ==
  LET at_end == IF db[r.key].t \notin {"none", "list"} THEN Out(db, WrongType)
                ELSE LET l == Append(db[r.key].l, r.value)
                     IN  Out([db EXCEPT ![r.key] = ListVal(l)], IntReply(Len(l)))
      o == Query(up, at_end, db)
      n == ToI32(o.reply)
  IN  {Returns(o, n, BytesCount(n.n))}

list_push(db, r, up) ==
  LET o == Query(up, CmdLPush(db, r.key, r.value), db)
      n == ToI32(o.reply)
  IN  {Returns(o, n, BytesCount(n.n))}

\* a set that sends SETNX: a key that holds a value keeps it
set_if_absent(db, r, up) ==
  LET o == Query(up, IF db[r.key].t = "none" THEN CmdSet(db, r.key, r.value)
                     ELSE Out(db, IntReply(0)), db)
  IN  {Returns(o, ToUnit(o.reply), BytesSet(r.value))}

set(db, r, up) ==
  LET o == Query(up, CmdSet(db, r.key, r.value), db)
  IN  {Returns(o, ToUnit(o.reply), BytesSet(r.value))}

list_del_item(db, r, up) ==
  LET o == Query(up, CmdLRem(db, r.key, r.value), db)
      n == ToI32(o.reply)
  IN  {Returns(o, n, BytesCount(n.n))}

set_add(db, r, up) ==
  LET o == Query(up, CmdSAdd(db, r.key, r.value), db)
      n == ToI32(o.reply)
  IN  {Returns(o, n, BytesCount(n.n))}

set_remove(db, r, up) ==
  LET o == Query(up, CmdSRem(db, r.key, r.value), db)
      n == ToI32(o.reply)
  IN  {Returns(o, n, BytesCount(n.n))}

\* a union put together from the members of each key, one key after another
set_union_concat(db, r, up) ==
  LET o == Query(up, CmdSUnion(db, r.keys), db)
      one(i) == CHOOSE l \in Orderings(db[r.keys[i]].m) : TRUE
      RECURSIVE cat(_)
      cat(i) == IF i > Len(r.keys) THEN <<>> ELSE one(i) \o cat(i + 1)
  IN  {IF o.reply.k = "members" THEN Returns(o, v, BytesValues(cat(1)))
       ELSE Returns(o, v, BytesValues(v.l)) : v \in ToVecs(o.reply)}

set_union(db, r, up) ==
  LET o == Query(up, CmdSUnion(db, r.keys), db)
  IN  {Returns(o, v, BytesValues(v.l)) : v \in ToVecs(o.reply)}

set_intersect(db, r, up) ==
  LET o == Query(up, CmdSInter(db, r.keys), db)
  IN  {Returns(o, v, BytesValues(v.l)) : v \in ToVecs(o.reply)}

set_query(db, r, up) ==
  LET o == Query(up, CmdSMembers(db, r.key), db)
  IN  {Returns(o, v, BytesValues(v.l)) : v \in ToVecs(o.reply)}

exists(db, r, up) ==
  LET o == Query(up, CmdExists(db, r.key), db)
      e == ToBool(o.reply)
  IN  {Returns(o, e, BytesGet(<<>>, e.b))}

\* the handler handle_call invokes for operation o, at its first command
Handler(o, db, r, up) ==
  CASE o = OP_ADD -> add(db, r, up)
    [] o = OP_DEL -> del(db, r, up)
    [] o = OP_GET -> get_exists(db, r, up)
    [] o = OP_CLEAR -> list_clear(db, r, up)
    [] o = OP_RANGE -> list_range(db, r, up)
    [] o = OP_PUSH -> list_push(db, r, up)
    [] o = OP_SET -> set(db, r, up)
    [] o = OP_LIST_DEL -> list_del_item(db, r, up)
    [] o = OP_SET_ADD -> set_add(db, r, up)
    [] o = OP_SET_REMOVE -> set_remove(db, r, up)
    [] o = OP_SET_UNION -> set_union(db, r, up)
    [] o = OP_SET_INTERSECT -> set_intersect(db, r, up)
    [] o = OP_SET_QUERY -> set_query(db, r, up)
    [] o = OP_KEY_EXISTS -> exists(db, r, up)

(***************************************************************************)
(* History kept for the properties: the run of like writes last made to a  *)
(* key (one Set, or Adds, or ListPushes, or deletions, with no other change *)
(* of the key since), with the value the key had before the run.           *)
(***************************************************************************)
NoTrail == [kind |-> "none", by |-> "", base |-> NoVal, nums |-> <<>>, strs |-> <<>>]

TrailAfter(tr, o, r, a, oc, db, k) ==
  CASE oc.ran /\ k = r.key /\ o = OP_SET ->
         [kind |-> "set", by |-> a, base |-> NoVal, nums |-> <<>>, strs |-> <<r.value>>]
    [] oc.ran /\ k = r.key /\ o = OP_ADD ->
         IF tr.kind = "add" THEN [tr EXCEPT !.nums = Append(@, r.ivalue)]
         ELSE [kind |-> "add", by |-> "", base |-> db[k], nums |-> <<r.ivalue>>, strs |-> <<>>]
    [] oc.ran /\ k = r.key /\ o = OP_PUSH ->
         IF tr.kind = "push" THEN [tr EXCEPT !.strs = Append(@, r.value)]
         ELSE [kind |-> "push", by |-> "", base |-> db[k], nums |-> <<>>, strs |-> <<r.value>>]
    [] oc.ran /\ k = r.key /\ o \in {OP_DEL, OP_CLEAR} ->
         IF tr.kind = "del" THEN [tr EXCEPT !.nums = Append(@, 1)]
         ELSE [kind |-> "del", by |-> "", base |-> db[k], nums |-> <<1>>, strs |-> <<>>]
    [] OTHER -> IF oc.db[k] # db[k] THEN NoTrail ELSE tr

(***************************************************************************)
(* What the host sends.  A behaviour runs one workload: the operations,    *)
(* the actors that call them and the contents of the requests.             *)
(***************************************************************************)
Workload(calls, threads, bad, modules, urls, keys, vals, nums, ranges, lists) ==
  [calls |-> calls, threads |-> threads, bad |-> bad, modules |-> modules,
   urls |-> urls, keys |-> keys, vals |-> vals, nums |-> nums, ranges |-> ranges,
   lists |-> lists]

\* an operation code no arm of handle_call matches
OP_UNKNOWN == "Rename"

\* the configuration by the host, the operations ops by actor a1
ByActor(ops) == {<<"system", OP_CONFIGURE>>} \cup {<<"a1", o>> : o \in ops}

\* registration and lookup: two actors, two servers, a rejected parameter
Registry ==
  Workload({<<"system", OP_CONFIGURE>>, <<"system", OP_UNKNOWN>>}
             \cup ({"a1", "a2"} \X {OP_SET, OP_GET, OP_UNKNOWN}),
           Threads, FALSE,
           {"a1", "a2"}, Urls \cup {BadUrl}, {"k"}, {<<"5">>}, {}, {}, {})

\* every operation code, with payloads that decode and payloads that do not
Dispatch ==
  Workload(ByActor(Catalog \cup {OP_CONFIGURE, OP_UNKNOWN}), {1}, TRUE,
           {"a1"}, {"u1"}, {"k"}, {<<"5">>}, {2}, {<<0, -1>>}, {<<"k">>})

\* strings and counters
Scalar ==
  Workload(ByActor({OP_SET, OP_GET, OP_ADD, OP_DEL, OP_KEY_EXISTS, OP_PUSH}), Threads, FALSE,
           {"a1"}, {"u1"}, {"k"}, {<<"5">>, <<"a">>}, {2, -3}, {}, {})

\* lists
Lists ==
  Workload(ByActor({OP_PUSH, OP_RANGE, OP_LIST_DEL, OP_GET}), Threads, FALSE,
           {"a1"}, {"u1"}, {"k"}, {<<"5">>, <<"a">>}, {}, {<<0, -1>>, <<1, 1>>}, {})

\* sets
Sets ==
  Workload(ByActor({OP_SET_ADD, OP_SET_REMOVE, OP_SET_UNION, OP_SET_QUERY, OP_GET}),
           Threads, FALSE,
           {"a1"}, {"u1"}, {"", "k"}, {<<"5">>, <<"a">>}, {}, {}, {<<"", "k">>})

\* deletions of a string, a list and a set
Deletes ==
  Workload(ByActor({OP_SET, OP_PUSH, OP_SET_ADD, OP_DEL, OP_CLEAR, OP_GET}), Threads, FALSE,
           {"a1"}, {"u1"}, {"k"}, {<<"a">>}, {}, {}, {})

Workloads == {Registry, Dispatch, Scalar, Lists, Sets, Deletes}

BadPayloads == {CutPayload, WrongWirePayload}

Requests(w, o) ==
  (IF w.bad THEN BadPayloads ELSE {}) \cup
  CASE o = OP_CONFIGURE -> {EncConfig(m, u) : m \in w.modules, u \in w.urls}
    [] o = OP_ADD -> {EncAdd(k, n) : k \in w.keys, n \in w.nums}
    [] o = OP_RANGE -> {EncRange(k, x[1], x[2]) : k \in w.keys, x \in w.ranges}
    [] o \in {OP_SET, OP_PUSH, OP_LIST_DEL, OP_SET_ADD, OP_SET_REMOVE} ->
         {EncKeyValue(k, v) : k \in w.keys, v \in w.vals}
    [] o \in {OP_SET_UNION, OP_SET_INTERSECT} -> {EncKeys(ks) : ks \in w.lists}
    [] OTHER -> {EncKey(k) : k \in w.keys}

(***************************************************************************)
(* The provider.                                                           *)
(***************************************************************************)
Init ==
  /\ clients = [a \in Names |-> NoClient]
  /\ readers = {}
  /\ writer = 0
  /\ pc = [t \in Threads |-> "idle"]
  /\ actor = [t \in Threads |-> ""]
  /\ op = [t \in Threads |-> ""]
  /\ req = [t \in Threads |-> NoReq]
  /\ newClient = [t \in Threads |-> NoClient]
  /\ con = [t \in Threads |-> NoClient]
  /\ ncmd = [t \in Threads |-> 0]
  /\ result = [t \in Threads |-> NoResult]
  /\ store = [u \in Urls |-> EmptyDb]
  /\ netOk = TRUE
  /\ nflips = 0
  /\ nconf = 0
  /\ nops = 0
  /\ suite \in Workloads
  /\ registered = [a \in Names |-> {}]
  /\ trail = [u \in Urls |-> [k \in Keys |-> NoTrail]]

\* RwLock: read() returns while no thread holds the write guard
CanRead(rs, w) == w = 0

\* a lock whose write() does not wait for the readers
CanWrite_among_readers(rs, w) == w = 0

\* RwLock: write() returns while no thread holds any guard
CanWrite(rs, w) == w = 0 /\ rs = {}

\* the first arm without its guard on the actor
IsConfigure_any_actor(a, o) == o = OP_CONFIGURE

\* the first arm of handle_call: OP_CONFIGURE if actor == "system"
IsConfigure(a, o) == o = OP_CONFIGURE /\ a = "system"

\* a lookup that falls back to any client of the map
Lookup_any(m, a) ==
  IF m[a] # NoClient \/ \A b \in DOMAIN m : m[b] = NoClient THEN m[a]
  ELSE m[CHOOSE b \in DOMAIN m : m[b] # NoClient]

\* a last arm that answers an unmatched operation with an empty success
NoMatch_accepts == Ok(EmptyPayload)

\* the last arm of handle_call: _ => Err("bad dispatch")
NoMatch == Err("bad dispatch")

\* lock.get(actor): the client under the caller's name, NoClient for None
Lookup(m, a) == m[a]

\* an insert under the name of the caller of the configuration
Insert_as_caller(m, config, c) == [m EXCEPT !["system"] = c]

\* a configuration that starts the map anew with its one entry
Insert_fresh(m, config, c) ==
  [a \in DOMAIN m |-> IF a = config.module THEN c ELSE NoClient]

\* insert(config.module, c): the entry of that name, added or replaced
Insert(m, config, c) == [m EXCEPT ![config.module] = c]

\* a configure that goes on to the insert whatever initialize_client returns
configure_client_unchecked(c) == [pc |-> "configure", res |-> NoResult, nc |-> c.c]

\* configure: `let c = initialize_client(config.clone())?`, an error returns
configure_client(c) ==
  IF c.ok THEN [pc |-> "configure", res |-> NoResult, nc |-> c.c]
  ELSE [pc |-> "done", res |-> Err("initialize_client"), nc |-> NoClient]

\* a thread that is in no call (idle, or its last call has returned: done)
\* calls handle_call, which runs up to the handler's first lock: the match on
\* op, the decode and, in configure, initialize_client
handle_call(t, a, o, msg) ==
  LET configuring == IsConfigure(a, o)
      d == DecodeFor(o, msg)
      c == initialize_client(d.req, nconf + 1)
      to(next, res, r, nc) ==
        /\ pc' = [pc EXCEPT ![t] = next]
        /\ result' = [result EXCEPT ![t] = res]
        /\ req' = [req EXCEPT ![t] = r]
        /\ newClient' = [newClient EXCEPT ![t] = nc]
  IN  /\ pc[t] \in {"idle", "done"}
      /\ t \in suite.threads /\ <<a, o>> \in suite.calls /\ msg \in Requests(suite, o)
      /\ IF configuring THEN nconf < MaxConfigs ELSE nops < MaxOps
      /\ nconf' = IF configuring THEN nconf + 1 ELSE nconf
      /\ nops' = IF configuring THEN nops ELSE nops + 1
      /\ actor' = [actor EXCEPT ![t] = a]
      /\ op' = [op EXCEPT ![t] = o]
      /\ ncmd' = [ncmd EXCEPT ![t] = 0]
      /\ con' = [con EXCEPT ![t] = NoClient]
      /\ CASE ~configuring /\ o \notin Catalog ->   \* _ => Err("bad dispatch")
                to("done", NoMatch, NoReq, NoClient)
           [] (configuring \/ o \in Catalog) /\ ~d.ok ->   \* decode(msg).unwrap()
                to("panicked", Panic("decode"), NoReq, NoClient)
           [] ~configuring /\ o \in Catalog /\ d.ok ->
                to("actor_con", NoResult, d.req, NoClient)
           [] configuring /\ d.ok ->
                LET made == configure_client(c)
                IN  to(made.pc, made.res, d.req, made.nc)
      /\ UNCHANGED <<clients, locks, servers, suite, registered, trail>>

\* configure: self.clients.write() returns the guard
configure_lock(t) ==
  /\ pc[t] = "configure"
  /\ CanWrite(readers, writer)
  /\ writer' = t
  /\ pc' = [pc EXCEPT ![t] = "insert"]
  /\ UNCHANGED <<clients, readers, call, result, servers, budget, registered, trail>>

\* configure: insert(config.module, c), the guard dropped, Ok(vec![])
configure(t) ==
  /\ pc[t] = "insert"
  /\ writer = t
  /\ clients' = Insert(clients, req[t], newClient[t])
  /\ registered' = [registered EXCEPT ![req[t].module] = @ \cup {newClient[t]}]
  /\ writer' = 0
  /\ pc' = [pc EXCEPT ![t] = "done"]
  /\ result' = [result EXCEPT ![t] = Ok(EmptyPayload)]
  /\ UNCHANGED <<readers, call, servers, budget, trail>>

\* actor_con: self.clients.read() returns the guard, lock.get(actor).unwrap()
actor_con(t) ==
  /\ pc[t] = "actor_con"
  /\ CanRead(readers, writer)
  /\ IF Lookup(clients, actor[t]) = NoClient
     THEN \* unwrap() of None: the panic drops the guard
          /\ pc' = [pc EXCEPT ![t] = "panicked"]
          /\ result' = [result EXCEPT ![t] = Panic("actor_con")]
          /\ UNCHANGED <<readers, con>>
     ELSE /\ pc' = [pc EXCEPT ![t] = "get_connection"]
          /\ readers' = readers \cup {t}
          /\ con' = [con EXCEPT ![t] = Lookup(clients, actor[t])]
          /\ UNCHANGED result
  /\ UNCHANGED <<clients, writer, actor, op, req, newClient, ncmd, servers, budget,
                 registered, trail>>

\* actor_con: get_connection() opens the connection, then the guard drops
get_connection(t) ==
  /\ pc[t] = "get_connection"
  /\ readers' = readers \ {t}
  /\ IF netOk
     THEN /\ pc' = [pc EXCEPT ![t] = "command"]
          /\ UNCHANGED result
     ELSE /\ pc' = [pc EXCEPT ![t] = "done"]
          /\ result' = [result EXCEPT ![t] = Err("io")]
  /\ UNCHANGED <<clients, writer, call, servers, budget, registered, trail>>

\* the thread's next command reaches the server and the handler goes on
Step(t, outcomes) ==
  \E oc \in outcomes :
    LET u == con[t].url
    IN  /\ store' = [store EXCEPT ![u] = oc.db]
        /\ trail' = [trail EXCEPT ![u] =
                       [k \in Keys |-> TrailAfter(trail[u][k], op[t], req[t], actor[t],
                                                  oc, store[u], k)]]
        /\ pc' = [pc EXCEPT ![t] = oc.pc]
        /\ result' = [result EXCEPT ![t] = oc.res]
        /\ ncmd' = [ncmd EXCEPT ![t] = @ + 1]
        /\ UNCHANGED <<clients, locks, actor, op, req, newClient, con, netOk, nflips,
                       budget, registered>>

\* the handler's first command
command(t) ==
  /\ pc[t] = "command"
  /\ Step(t, Handler(op[t], store[con[t].url], req[t], netOk))

\* get's second command
get_value(t) ==
  /\ pc[t] = "get_read"
  /\ Step(t, get_read(store[con[t].url], req[t], netOk))

\* the network to the servers fails or recovers
network ==
  /\ nflips < MaxFlips
  /\ nflips' = nflips + 1
  /\ netOk' = ~netOk
  /\ UNCHANGED <<clients, locks, pc, call, result, store, budget, registered, trail>>

Next ==
  \/ \E t \in suite.threads, c \in suite.calls :
       \E msg \in Requests(suite, c[2]) : handle_call(t, c[1], c[2], msg)
  \/ \E t \in Threads : configure_lock(t)
  \/ \E t \in Threads : configure(t)
  \/ \E t \in Threads : actor_con(t)
  \/ \E t \in Threads : get_connection(t)
  \/ \E t \in Threads : command(t)
  \/ \E t \in Threads : get_value(t)
  \/ network

Spec == Init /\ [][Next]_vars

\* the behaviours of one workload
InitRegistry == Init /\ suite = Registry
SpecRegistry == InitRegistry /\ [][Next]_vars

InitDispatch == Init /\ suite = Dispatch
SpecDispatch == InitDispatch /\ [][Next]_vars

InitScalar == Init /\ suite = Scalar
SpecScalar == InitScalar /\ [][Next]_vars

InitLists == Init /\ suite = Lists
SpecLists == InitLists /\ [][Next]_vars

InitSets == Init /\ suite = Sets
SpecSets == InitSets /\ [][Next]_vars

InitDeletes == Init /\ suite = Deletes
SpecDeletes == InitDeletes /\ [][Next]_vars

(***************************************************************************)
(* Properties.                                                             *)
(***************************************************************************)
\* the call of thread t has looked its actor up in the registry
LookedUp(t) ==
  \/ pc[t] \in {"get_connection", "command", "get_read"}
  \/ pc[t] \in {"done", "panicked"} /\ op[t] \in Catalog /\ result[t] # Panic("decode")

\* C1: every lookup by a catalog operation ends with the client of a
\* configuration made for the calling actor, or with the error "actor not
\* configured" returned to the host; none ends in a panic.
C1_ResolveSucceedsOrReports ==
  \A t \in Threads :
    LookedUp(t) =>
      \/ con[t] # NoClient /\ con[t] \in registered[actor[t]]
      \/ pc[t] = "done" /\ result[t] = Err("actor not configured")

\* C2: the client a call asks for its connection is one a configuration made
\* for the calling actor and for no other name, and it is the client the
\* registry holds under that actor while the call holds the read lock.
C2_TenantIsolation ==
  \A t \in Threads :
    con[t] # NoClient =>
      /\ con[t] \in registered[actor[t]]
      /\ \A b \in Names \ {actor[t]} : con[t] \notin registered[b]
      /\ pc[t] = "get_connection" => con[t] = clients[actor[t]]

\* C2 witness: two calls by different actors hold connections of different
\* clients at once, each about to send its command.
C2_Witness ==
  \E t1, t2 \in Threads :
    /\ pc[t1] = "command" /\ pc[t2] = "command"
    /\ actor[t1] = "a1" /\ actor[t2] = "a2"
    /\ con[t1].url = "u1" /\ con[t2].url = "u2"

\* C3: a call with the configuration opcode by an actor other than "system"
\* returns the error of the no-match arm at once: it decodes nothing, makes no
\* client and never reaches the insert.
C3_ConfigureOnlyBySystem ==
  \A t \in Threads :
    op[t] = OP_CONFIGURE /\ actor[t] # "system" =>
      /\ pc[t] = "done"
      /\ result[t] = Err("bad dispatch")
      /\ newClient[t] = NoClient
      /\ \A a \in Names : newClient[t] \notin registered[a]

\* C3 witness: after a configuration by "system" has registered a1, a1 itself
\* has sent the configuration opcode and got the error.
C3_Witness ==
  \E t \in Threads :
    /\ op[t] = OP_CONFIGURE /\ actor[t] = "a1" /\ pc[t] = "done"
    /\ result[t].kind = "err"
    /\ clients["a1"] # NoClient

\* C4: the insert of a configuration puts its client under config.module,
\* replacing what was there and leaving every other entry as it was, and a
\* lookup takes the client the registry holds under the actor at that moment.
C4_RegisterReplaces ==
  [][\A t \in Threads :
       /\ pc[t] = "insert" /\ pc'[t] = "done" =>
            /\ clients'[req[t].module] = newClient[t]
            /\ \A m \in Names \ {req[t].module} : clients'[m] = clients[m]
       /\ pc[t] = "actor_con" /\ pc'[t] = "get_connection" =>
            con'[t] = clients[actor[t]]]_vars

\* C4 witness: a1 has been configured twice and a call by a1 holds the second
\* client, which the registry holds too.
C4_Witness ==
  \E t \in Threads :
    /\ actor[t] = "a1" /\ pc[t] = "command"
    /\ Cardinality(registered["a1"]) = 2
    /\ con[t].id = 2 /\ clients["a1"] = con[t]

\* C5: a thread holds the write guard only alone: no thread holds a read guard
\* meanwhile, the holders of the guards are the threads inside insert and
\* get_connection, and so no two threads are inside insert.
C5_LockDiscipline ==
  /\ writer # 0 => readers = {}
  /\ \A t \in Threads : (pc[t] = "insert") = (writer = t)
  /\ \A t \in Threads : (pc[t] = "get_connection") = (t \in readers)

\* C5 witness: two resolves hold the read guard at the same time.
C5_Witness == Cardinality(readers) = 2

\* C6: a call whose opcode is in no arm (not in the catalog, and not the
\* configuration by "system") has returned the no-match error, without a
\* lookup, a connection or a command.
C6_UnsupportedOperation ==
  \A t \in Threads :
    pc[t] # "idle" /\ op[t] \notin Catalog /\ ~(op[t] = OP_CONFIGURE /\ actor[t] = "system") =>
      /\ pc[t] = "done"
      /\ result[t] = Err("bad dispatch")
      /\ con[t] = NoClient /\ ncmd[t] = 0

\* C6 witness: a registered and an unregistered actor have both sent the
\* unknown opcode.
C6_Witness ==
  \E t1, t2 \in Threads :
    /\ op[t1] = OP_UNKNOWN /\ op[t2] = OP_UNKNOWN
    /\ actor[t1] = "a1" /\ actor[t2] = "a2"
    /\ clients["a1"] # NoClient /\ clients["a2"] = NoClient
    /\ pc[t1] = "done" /\ pc[t2] = "done"

\* C7: a payload that does not decode makes handle_call return an error
\* (ProtocolError) to the host: the call does not panic.
C7_DecodeFailureReported ==
  \A t \in Threads :
    op[t] \in Catalog \cup {OP_CONFIGURE} /\ pc[t] \notin {"idle", "done"} =>
      result[t] # Panic("decode")

\* the database the connection of thread t reaches
Db(t) == store[con[t].url]

\* thread t sends the command it is at
Sends(t, at) == pc[t] = at /\ pc'[t] # at

\* C8: when the server answers and the EXISTS of a Get finds the key absent,
\* the Get returns the success response {value: "", exists: false} after that
\* one command, and the databases are as before.
C8_GetAbsent ==
  [][\A t \in Threads :
       Sends(t, "command") /\ op[t] = OP_GET /\ netOk /\ Db(t)[req[t].key].t = "none" =>
         /\ pc'[t] = "done"
         /\ result'[t].kind = "ok"
         /\ AsGetResponse(result'[t].bytes) = [value |-> <<>>, exists |-> FALSE]
         /\ store' = store]_vars

\* C8 witness: a Get of a registered actor has returned {"", false} after one
\* command with the server reachable throughout, and the key is absent.
C8_Witness ==
  \E t \in Threads :
    /\ op[t] = OP_GET /\ pc[t] = "done" /\ ncmd[t] = 1 /\ nflips = 0
    /\ result[t] = Ok(BytesGet(<<>>, FALSE))
    /\ Db(t)[req[t].key].t = "none"

\* C9: with the server answering, a Set returns the value of its request; and
\* while the last write of key k is a Set(k, v) by the actor, a Get(k) by that
\* actor finds the key and returns {value: v, exists: true}.
C9_SetGetRoundTrip ==
  [][\A t \in Threads :
       LET tr == trail[con[t].url][req[t].key]
           mine == tr.kind = "set" /\ tr.by = actor[t]
       IN  /\ Sends(t, "command") /\ op[t] = OP_SET /\ netOk =>
                /\ result'[t].kind = "ok"
                /\ AsSetResponse(result'[t].bytes) = [value |-> req[t].value]
           /\ Sends(t, "command") /\ op[t] = OP_GET /\ netOk /\ mine =>
                pc'[t] = "get_read"
           /\ Sends(t, "get_read") /\ netOk /\ mine =>
                /\ result'[t].kind = "ok"
                /\ AsGetResponse(result'[t].bytes) = [value |-> tr.strs[1], exists |-> TRUE]]_vars

\* C9 witness: a Get has returned the value "a" that the last write of its
\* key, a Set over a different value, stored.
C9_Witness ==
  \E t \in Threads :
    /\ op[t] = OP_GET /\ pc[t] = "done" /\ ncmd[t] = 2
    /\ result[t] = Ok(BytesGet(<<"a">>, TRUE))
    /\ trail[con[t].url][req[t].key].kind = "set"
    /\ trail[con[t].url][req[t].key].strs = <<<<"a">>>>
    /\ nops = 3

RECURSIVE Sum(_)
Sum(nums) == IF nums = <<>> THEN 0 ELSE Head(nums) + Sum(Tail(nums))

\* the value one Add of n leaves at key k that held the value base
AfterOneAdd(base, k, n) ==
  {oc.db[k] : oc \in add([kk \in Keys |-> IF kk = k THEN base ELSE NoVal],
                         [NoReq EXCEPT !.key = k, !.ivalue = n], TRUE)}

\* a key whose last writes are Adds holds what one Add of their sum leaves
AddRun ==
  \A u \in Urls, k \in Keys :
    trail[u][k].kind = "add" =>
      AfterOneAdd(trail[u][k].base, k, Sum(trail[u][k].nums)) = {store[u][k]}

\* C10: after Adds to a key with no other write between them, the key holds
\* what a single Add of the sum of their increments leaves on the value the
\* key had before; an Add that the server answers on an absent or integer
\* value succeeds, and an Add that succeeds returns the integer the key holds
\* right after it.
C10_AddAdditive ==
  [][/\ trail' # trail => AddRun'
     /\ \A t \in Threads :
          Sends(t, "command") /\ op[t] = OP_ADD =>
            LET old == Db(t)[req[t].key]
                new == store'[con[t].url][req[t].key]
            IN  /\ netOk /\ (old.t = "none" \/ (old.t = "string" /\ IsIntString(old.s))) =>
                     result'[t].kind = "ok"
                /\ result'[t].kind = "ok" =>
                     /\ new.t = "string" /\ IsIntString(new.s)
                     /\ AsAddResponse(result'[t].bytes) = [value |-> ParseInt(new.s)]]_vars

\* C10 witness: two Adds of different increments have followed each other on
\* a key that held "5", and the second has returned.
C10_Witness ==
  \E t \in Threads, u \in Urls, k \in Keys :
    /\ trail[u][k].kind = "add" /\ trail[u][k].base = StrVal(<<"5">>)
    /\ trail[u][k].nums = <<2, -3>>
    /\ op[t] = OP_ADD /\ pc[t] = "done" /\ result[t] = Ok(BytesAdd(4))

\* C11: an Add on a key that holds a value that is not an integer (a string
\* that is no number, or a list) returns an error to the host, no AddResponse,
\* and the databases are as before.
C11_AddNonNumericFails ==
  [][\A t \in Threads :
       LET old == Db(t)[req[t].key]
       IN  /\ Sends(t, "command") /\ op[t] = OP_ADD
           /\ old.t # "none" /\ ~(old.t = "string" /\ IsIntString(old.s))
           => /\ pc'[t] = "done"
              /\ result'[t].kind = "err"
              /\ store' = store]_vars

\* C11 witness: with the server reachable throughout, an Add on a key that
\* holds "a" has returned the server's error and the key still holds "a".
C11_Witness ==
  \E t \in Threads :
    /\ op[t] = OP_ADD /\ pc[t] = "done" /\ nflips = 0
    /\ result[t] = Err("not an integer")
    /\ Db(t)[req[t].key] = StrVal(<<"a">>)

\* C12: with the server answering, a Del of a registered actor succeeds and
\* returns the key of its request, whatever the key holds; after it the key
\* is absent and every other key is as before, so a Del of an absent key
\* leaves the databases unchanged.  ListClear does the same as Del.
C12_DelIdempotent ==
  [][\A t \in Threads :
       Sends(t, "command") /\ op[t] \in {OP_DEL, OP_CLEAR} /\ netOk =>
         LET u == con[t].url
             k == req[t].key
         IN  /\ pc'[t] = "done"
             /\ result'[t].kind = "ok"
             /\ AsDelResponse(result'[t].bytes) = [key |-> k]
             /\ store'[u][k] = NoVal
             /\ store' = [store EXCEPT ![u][k] = NoVal]
             /\ Db(t)[k] = NoVal => store' = store
             /\ Handler(OP_CLEAR, Db(t), req[t], netOk) = Handler(OP_DEL, Db(t), req[t], netOk)]_vars

\* C12 witness: a Del and a ListClear have followed each other on a key that
\* held a set; both have returned the key, which is absent.
C12_Witness ==
  \E t1, t2 \in Threads :
    /\ op[t1] = OP_DEL /\ op[t2] = OP_CLEAR
    /\ pc[t1] = "done" /\ pc[t2] = "done"
    /\ result[t1] = Ok(BytesDel("k")) /\ result[t2] = Ok(BytesDel("k"))
    /\ trail["u1"]["k"].kind = "del" /\ trail["u1"]["k"].base.t = "set"
    /\ Len(trail["u1"]["k"].nums) = 2
    /\ store["u1"]["k"] = NoVal

\* the pushes last made to key k of server u, from an absent key
Pushed(u, k) ==
  IF trail[u][k].kind = "push" /\ trail[u][k].base = NoVal THEN trail[u][k].strs ELSE <<>>

Reverse(l) == [i \in 1..Len(l) |-> l[Len(l) + 1 - i]]

\* C13: with the server answering, on a key that was absent and has since
\* only been pushed to, the i-th ListPush returns the count i, and
\* ListRange(0, -1) returns the pushed values, the most recent first.
C13_ListPushPrepends ==
  [][\A t \in Threads :
       LET u == con[t].url
           k == req[t].key
       IN  /\ Sends(t, "command") /\ op[t] = OP_PUSH /\ netOk
              /\ (Db(t)[k] = NoVal \/ Pushed(u, k) # <<>>)
              => /\ result'[t].kind = "ok"
                 /\ AsCountResponse(result'[t].bytes) = [new_count |-> Len(Pushed(u, k)) + 1]
                 /\ Pushed(u, k)' = Append(Pushed(u, k), req[t].value)
           /\ Sends(t, "command") /\ op[t] = OP_RANGE /\ netOk
              /\ req[t].start = 0 /\ req[t].stop = -1 /\ Pushed(u, k) # <<>>
              => /\ result'[t].kind = "ok"
                 /\ AsValuesResponse(result'[t].bytes) = [values |-> Reverse(Pushed(u, k))]]_vars

\* C13 witness: "5" then "a" have been pushed to an absent key, the second
\* push has returned 2 and a ListRange(0, -1) has returned ["a", "5"].
C13_Witness ==
  \E t1, t2 \in Threads :
    /\ Pushed("u1", "k") = <<<<"5">>, <<"a">>>>
    /\ op[t1] = OP_PUSH /\ pc[t1] = "done" /\ result[t1] = Ok(BytesCount(2))
    /\ op[t2] = OP_RANGE /\ pc[t2] = "done"
    /\ result[t2] = Ok(BytesValues(<<<<"a">>, <<"5">>>>))

\* C14: a SetAdd or SetRemove that succeeds returns in new_count the number
\* of members the set has after it.
C14_SetCountIsCardinality ==
  [][\A t \in Threads :
       Sends(t, "command") /\ op[t] \in {OP_SET_ADD, OP_SET_REMOVE} /\ result'[t].kind = "ok" =>
         AsCountResponse(result'[t].bytes) =
           [new_count |-> Cardinality(store'[con[t].url][req[t].key].m)]]_vars

\* the values of a list, and whether it lists each of them once
Range(l) == {l[i] : i \in 1..Len(l)}
NoDuplicates(l) == Cardinality(Range(l)) = Len(l)

\* C15: with the server answering, a SetAdd puts its value among the members
\* of the set, and a SetAdd of a value that is a member already leaves the
\* databases (members and their number) as they were; SetQuery lists the
\* members of its key, and SetUnion the members of the union of its keys,
\* each member once.
C15_SetSemantics ==
  [][\A t \in Threads :
       LET db == Db(t)
           k == req[t].key
           ks == req[t].keys
           values == AsValuesResponse(result'[t].bytes).values
       IN  /\ Sends(t, "command") /\ op[t] = OP_SET_ADD /\ netOk /\ db[k].t \in {"none", "set"}
              => /\ result'[t].kind = "ok"
                 /\ store'[con[t].url][k].m = db[k].m \cup {req[t].value}
                 /\ req[t].value \in db[k].m => store' = store
           /\ Sends(t, "command") /\ op[t] = OP_SET_QUERY /\ netOk /\ db[k].t \in {"none", "set"}
              => /\ result'[t].kind = "ok"
                 /\ Range(values) = db[k].m /\ NoDuplicates(values)
           /\ Sends(t, "command") /\ op[t] = OP_SET_UNION /\ netOk /\ ks # <<>>
              /\ (\A i \in 1..Len(ks) : db[ks[i]].t \in {"none", "set"})
              => /\ result'[t].kind = "ok"
                 /\ Range(values) = UNION {db[ks[i]].m : i \in 1..Len(ks)}
                 /\ NoDuplicates(values)]_vars

\* C15 witness: two keys hold sets that share the member "5", and a SetUnion
\* over both has returned "5" once.
C15_Witness ==
  \E t \in Threads :
    /\ op[t] = OP_SET_UNION /\ pc[t] = "done" /\ req[t].keys = <<"", "k">>
    /\ <<"5">> \in store["u1"][""].m \cap store["u1"]["k"].m
    /\ result[t] = Ok(BytesValues(<<<<"5">>>>))

\* C16: no thread holds a guard of the registry lock while it opens its
\* connection or has a command at the server.
C16_NoLockAcrossNetwork ==
  \A t \in Threads :
    pc[t] \in {"get_connection", "command", "get_read"} => t \notin readers /\ writer # t

\* C17: a dispatch sends at most one command to the server, and one that
\* has returned a response has sent exactly one.
C17_OneCommandPerDispatch ==
  \A t \in Threads :
    /\ ncmd[t] <= 1
    /\ pc[t] = "done" /\ op[t] \in Catalog /\ result[t].kind = "ok" => ncmd[t] = 1

\* C18: a Get sends its GET only after its EXISTS was answered with the key
\* present; when that GET fails (the server is not reached, the value is no
\* string, or the key has gone meanwhile) the Get returns the success
\* response {value: "", exists: false}; when the EXISTS fails the Get
\* returns an error.
C18_GetReadFailureAsAbsent ==
  [][\A t \in Threads :
       LET v == Db(t)[req[t].key]
       IN  /\ Sends(t, "command") /\ op[t] = OP_GET /\ pc'[t] = "get_read" =>
                netOk /\ v.t # "none"
           /\ Sends(t, "command") /\ op[t] = OP_GET /\ ~netOk =>
                pc'[t] = "done" /\ result'[t].kind = "err"
           /\ Sends(t, "get_read") /\ (~netOk \/ v.t # "string") =>
                /\ pc'[t] = "done"
                /\ result'[t].kind = "ok"
                /\ AsGetResponse(result'[t].bytes) = [value |-> <<>>, exists |-> FALSE]
                /\ store' = store]_vars

\* C18 witness: with the server reachable throughout, a Get has sent both
\* its commands and returned {"", false}: its key held a string, which a Del
\* of the other thread removed between the two.
C18_Witness ==
  \E t1, t2 \in Threads :
    /\ op[t1] = OP_GET /\ pc[t1] = "done" /\ ncmd[t1] = 2 /\ nflips = 0
    /\ result[t1] = Ok(BytesGet(<<>>, FALSE))
    /\ op[t2] = OP_DEL /\ pc[t2] = "done" /\ req[t2].key = req[t1].key
    /\ trail["u1"][req[t1].key].kind = "del"
    /\ trail["u1"][req[t1].key].base.t = "string"

\* the configuration thread t has made is one whose client creation fails
CreationFailed(t) ==
  /\ op[t] = OP_CONFIGURE /\ actor[t] = "system" /\ result[t].kind # "panic"
  /\ ~initialize_client(req[t], 0).ok

\* C19: a configuration whose client creation fails has returned an error
\* and holds no client; the call leaves the registry as it was, and the
\* registry changes only by the insert of a configuration whose creation
\* succeeded, so the entry the actor had stays and lookups find it.
C19_FailedConfigureKeepsRegistry ==
  [][/\ \A t \in Threads :
          CreationFailed(t)' =>
            pc'[t] = "done" /\ result'[t].kind = "err" /\ newClient'[t] = NoClient
     /\ nconf' # nconf => clients' = clients
     /\ clients' # clients =>
          \E t \in Threads :
            /\ pc[t] = "insert" /\ ~CreationFailed(t) /\ newClient[t] # NoClient
            /\ clients' = [clients EXCEPT ![req[t].module] = newClient[t]]]_vars

\* C19 witness: a1 was configured, a second configuration for a1 with a
\* parameter the factory rejects has returned an error, and a later call by
\* a1 holds the connection of the first client, which is still registered.
C19_Witness ==
  \E t1, t2 \in Threads :
    /\ CreationFailed(t1) /\ req[t1].module = "a1" /\ req[t1].url = BadUrl
    /\ pc[t1] = "done" /\ result[t1] = Err("initialize_client")
    /\ nconf = 2 /\ clients["a1"].id = 1
    /\ actor[t2] = "a1" /\ pc[t2] = "command" /\ con[t2] = clients["a1"]

\* the actors the registry holds a client for
Registered == {a \in Names : clients[a] # NoClient}

\* C20: the registry changes only in the insert of a configuration sent by
\* "system", which then returns success; every other step (a catalog
\* operation, an operation no arm matches, a lookup that fails, a command
\* that fails) leaves it as it is; and an actor once registered stays so.
C20_RegistryOnlyGrows ==
  [][/\ clients' # clients =>
          \E t \in Threads :
            /\ pc[t] = "insert" /\ op[t] = OP_CONFIGURE /\ actor[t] = "system"
            /\ pc'[t] = "done" /\ result'[t] = Ok(EmptyPayload)
     /\ Registered \subseteq Registered']_vars

\* C20 witness: two actors are registered, the first by the first
\* configuration, and since then a store command of a registered actor has
\* failed and an operation no arm matches was refused.
C20_Witness ==
  \E t1, t2 \in Threads :
    /\ Registered = {"a1", "a2"} /\ nconf = 2
    /\ op[t1] \in Catalog /\ pc[t1] = "done" /\ result[t1] = Err("io")
    /\ op[t2] = OP_UNKNOWN /\ pc[t2] = "done" /\ result[t2] = Err("bad dispatch")

====
